---- MODULE Spec2Model ----
(***************************************************************************)
(* Model of the Snyk export pipeline of export-vuln-status-report-org      *)
(* (main.go) and of its earlier variant with a hard-coded date filter.     *)
(* One run of the program: getConfig, createExport, checkExportStatus,     *)
(* downloadExport, the per-chunk download/parse/aggregate loop, saveReport.*)
(*                                                                         *)
(* Strings that the program builds are modelled as sequences of tokens:    *)
(* a YYYY-MM-DD argument is <<y, m, d>>, the empty string is <<>>, and     *)
(* fmt.Sprintf("%sT00:00:00Z", d) is d \o <<"T00:00:00Z">>.                *)
(***************************************************************************)
EXTENDS Integers, Sequences, FiniteSets, TLC

VARIABLES
    variant,    \* which main package runs: "dated" (main.go) or "fixed"
    args,       \* os.Args[1..3]: [orgID, dateFrom, dateTo]
    token,      \* os.Getenv("SNYK_TOKEN")
    pc,         \* position of main
    exitCode,   \* -1 while running, else the process exit code
    config,     \* Config
    createLog,  \* the response createExport received, once it has one
    requests,   \* network requests issued so far, in order
    statusLog,  \* status responses received by checkExportStatus, in order
    pollErr,    \* main's err from checkExportStatus: "running", "nil", "error"
    listLog,    \* the response downloadExport received, once it has one
    sleeps,     \* time.Sleep calls in order: seconds, and the number of
                \* requests issued before the call
    results,    \* exportData.Data.Attributes.Results
    idx,        \* number of chunks the loop has handled
    result,     \* result.Report
    chunkLog,   \* per handled chunk: the response and what main made of it
    warnings,   \* log.Printf warnings
    files,      \* files written to disk
    stdout,     \* summary lines printed on stdout
    errText,    \* the text of the error returned by checkExportStatus
    lap,        \* flips at every status query beyond the MaxPolls logged ones
    issues,     \* group script: the IssueRecords the aggregator has consumed
    summaryReport  \* group script: the SummaryReport, rows in first-seen order

vars == <<variant, args, token, pc, exitCode, config, createLog, requests,
          statusLog, pollErr, listLog, sleeps, results, idx, result, chunkLog,
          warnings, files, stdout, errText, lap, issues, summaryReport>>

\* The variables of the organization script (main.go and its variant)
orgVars == <<variant, args, token, pc, exitCode, config, createLog, requests,
             statusLog, pollErr, listLog, sleeps, results, idx, result,
             chunkLog, warnings, files, stdout, errText, lap>>

----------------------------------------------------------------------------
(* Bounds of the model *)

MaxPolls == 2
MaxChunks == 2

----------------------------------------------------------------------------
(* Inputs *)

DateA == <<2025, 1, 1>>
DateB == <<2025, 12, 31>>
DateBad == <<2025, 2, 30>>
DateArgs == {<<>>, DateBad, DateA, DateB}
OrgArgs == {"", "org-1"}
Tokens == {"", "tok"}

\* The command lines tried: main.go with every combination of arguments,
\* the variant, which reads no date argument, without dates or with a pair
Arguments(v) ==
    IF v = "dated"
    THEN [orgID : OrgArgs, dateFrom : DateArgs, dateTo : DateArgs]
    ELSE [orgID : OrgArgs, dateFrom : {<<>>}, dateTo : {<<>>}]
         \cup [orgID : OrgArgs, dateFrom : {DateA}, dateTo : {DateB}]

Severities == {"Critical", "High", "Medium", "Low"}

\* The three-way lexicographic order on dates
DateLater(a, b) ==
    \/ a[1] > b[1]
    \/ a[1] = b[1] /\ a[2] > b[2]
    \/ a[1] = b[1] /\ a[2] = b[2] /\ a[3] > b[3]

----------------------------------------------------------------------------
(* getConfig *)

IsLeap(y) == (y % 4 = 0 /\ y % 100 # 0) \/ y % 400 = 0

DaysIn(y, m) ==
    IF m = 2 THEN (IF IsLeap(y) THEN 29 ELSE 28)
    ELSE IF m \in {4, 6, 9, 11} THEN 30 ELSE 31

\* time.Parse("2006-01-02", s) succeeds
ParsesAsDate(s) ==
    /\ Len(s) = 3
    /\ s[2] \in 1..12
    /\ s[3] \in 1..DaysIn(s[1], s[2])

Sprintf(date, suffix) == date \o <<suffix>>

ZeroConfig ==
    [SnykOrgID |-> "", SnykAPIKey |-> "", ExportID |-> "",
     FromDate |-> <<>>, ToDate |-> <<>>]

\* The validation of getConfig: TRUE when no os.Exit(1) is taken
ConfigValid ==
    /\ args.orgID # ""
    /\ variant = "dated" =>
          /\ args.dateFrom # <<>> /\ ParsesAsDate(args.dateFrom)
          /\ args.dateTo # <<>> /\ ParsesAsDate(args.dateTo)
    /\ token # ""

BuiltConfig ==
    [SnykOrgID |-> args.orgID, SnykAPIKey |-> token, ExportID |-> "",
     FromDate |-> IF variant = "dated"
                  THEN Sprintf(args.dateFrom, "T00:00:00Z") ELSE <<>>,
     ToDate |-> IF variant = "dated"
                THEN Sprintf(args.dateTo, "T23:59:59Z") ELSE <<>>]

getConfig ==
    /\ pc = "getConfig"
    /\ \/ /\ ConfigValid
          /\ config' = BuiltConfig
          /\ pc' = "createExport"
          /\ UNCHANGED exitCode
       \/ /\ ~ConfigValid
          /\ pc' = "exit"
          /\ exitCode' = 1
          /\ UNCHANGED config
    /\ UNCHANGED <<issues, summaryReport, lap, errText, variant, args,
                   token,
                   listLog, createLog, requests, statusLog,
                   pollErr, sleeps, results, idx, result, chunkLog, warnings,
                   files, stdout>>

----------------------------------------------------------------------------
(* createExport, with main's handling of its result *)

Request(kind, from, to, n) == [kind |-> kind, from |-> from, to |-> to, n |-> n]

\* reqBody.Data.Attributes.Filters.Introduced.From / .To
FilterFrom(cfg) ==
    IF variant = "dated" THEN cfg.FromDate ELSE <<2025, 1, 1, "T00:00:00Z">>

FilterTo(cfg) ==
    IF variant = "dated" THEN cfg.ToDate ELSE <<2025, 12, 31, "T00:00:00Z">>

\* Responses to the job-submission POST: transport failure, or a status code
\* with a body that is unreadable, not JSON, or JSON with data.id = id
CreateResponses ==
    {[err |-> TRUE, code |-> 0, body |-> "none", id |-> ""]}
    \cup [err : {FALSE}, code : {200, 202, 400}, body : {"unreadable", "badjson"},
          id : {""}]
    \cup [err : {FALSE}, code : {200, 202, 400}, body : {"json"},
          id : {"", "job-1"}]

\* createExport's returned id for a response
CreateExportId(resp) ==
    IF resp.err THEN ""
    ELSE IF resp.code # 202 THEN ""
    ELSE IF resp.body # "json" THEN ""
    ELSE resp.id

\* CreateExportFails without the check of the id
CreateExportFailsNoIdCheck(resp) ==
    \/ resp.err
    \/ resp.code # 202
    \/ resp.body # "json"

\* createExport returns a non-nil error
CreateExportFails(resp) ==
    \/ resp.err
    \/ resp.code # 202
    \/ resp.body # "json"
    \/ resp.id = ""

\* time.Sleep(5 * time.Second) after the job is created
CreationDelay == 5

\* Sleep of a program that waits before it issues the request
SleepBeforeRequest(secs, issued) == [secs |-> secs, after |-> Len(issued) - 1]

Sleep(secs, issued) == [secs |-> secs, after |-> Len(issued)]

createExport ==
    /\ pc = "createExport"
    /\ requests' = Append(requests,
                     Request("POST export", FilterFrom(config), FilterTo(config), 0))
    /\ \E resp \in CreateResponses :
          /\ createLog' = Append(createLog, resp)
          /\ config' = [config EXCEPT !.ExportID = CreateExportId(resp)]
          /\ \/ /\ CreateExportFails(resp)
                /\ pc' = "exit"
                /\ exitCode' = 1
                /\ UNCHANGED sleeps
             \/ /\ ~CreateExportFails(resp)
                /\ sleeps' = Append(sleeps, Sleep(CreationDelay, requests'))
                /\ pc' = "checkExportStatus"
                /\ UNCHANGED exitCode
    /\ UNCHANGED <<issues, summaryReport, lap, errText, variant, args,
                   token,
                   listLog, statusLog, pollErr, results, idx, result,
                   chunkLog, warnings, files, stdout>>

----------------------------------------------------------------------------
(* checkExportStatus: one iteration of its loop, and main's handling of the
   value it returns *)

Statuses == {"", "PENDING", "STARTED", "FINISHED", "ERROR", "finished"}

\* Responses to the status GET: transport failure, or a status code with a
\* body that is unreadable, not JSON, or JSON with data.attributes.status
StatusResponses ==
    {[err |-> TRUE, code |-> 0, body |-> "none", status |-> ""]}
    \cup [err : {FALSE}, code : {200, 500}, body : {"unreadable", "badjson"},
          status : {""}]
    \cup [err : {FALSE}, code : {200, 500}, body : {"json"}, status : Statuses]

\* IsReady that takes every terminal status, ERROR included, as ready
IsReadyWithError(status) ==
    status = "" \/ status = "STARTED" \/ status = "FINISHED" \/ status = "ERROR"

\* IsReady without the absent-status case
IsReadyNoAbsent(status) == status = "STARTED" \/ status = "FINISHED"

IsReady(status) == status = "" \/ status = "STARTED" \/ status = "FINISHED"

\* IsPending that also waits on ERROR
IsPendingOrError(status) == status = "PENDING" \/ status = "ERROR"

\* IsPending that waits on every status that is not ready
IsPendingAnyOther(status) == TRUE

IsPending(status) == status = "PENDING"

\* PollOutcome that queries again after a transport failure
PollOutcomeRetryOnError(resp) ==
    IF resp.err THEN "pending"
    ELSE IF resp.body = "unreadable" THEN "error"
    ELSE IF resp.code # 200 THEN "error"
    ELSE IF resp.body # "json" THEN "error"
    ELSE IF IsReady(resp.status) THEN "ready"
    ELSE IF IsPending(resp.status) THEN "pending"
    ELSE "error"

\* PollOutcome that ends the loop without an error on an unknown status
PollOutcomeUnknownReady(resp) ==
    IF resp.err THEN "error"
    ELSE IF resp.body = "unreadable" THEN "error"
    ELSE IF resp.code # 200 THEN "error"
    ELSE IF resp.body # "json" THEN "error"
    ELSE IF resp.status = "PENDING" THEN "pending"
    ELSE "ready"

\* PollOutcome that reads the status of the body whatever the HTTP status
PollOutcomeAnyCode(resp) ==
    IF resp.err THEN "error"
    ELSE IF resp.body = "unreadable" THEN "error"
    ELSE IF resp.body # "json" THEN "error"
    ELSE IF IsReady(resp.status) THEN "ready"
    ELSE IF IsPending(resp.status) THEN "pending"
    ELSE "error"

\* What one iteration does with a response: "error" (return an error),
\* "ready" (return nil) or "pending" (sleep and query again)
PollOutcome(resp) ==
    IF resp.err THEN "error"
    ELSE IF resp.body = "unreadable" THEN "error"
    ELSE IF resp.code # 200 THEN "error"
    ELSE IF resp.body # "json" THEN "error"
    ELSE IF IsReady(resp.status) THEN "ready"
    ELSE IF IsPending(resp.status) THEN "pending"
    ELSE "error"

\* time.Sleep(1 * time.Second) after a PENDING response
PollDelay == 1

\* An error value: the text of its format, and the HTTP status code and the
\* export status formatted into it (0 and "" when the format has none)
ErrorValue(text, code, status) ==
    [text |-> text, code |-> code, status |-> status]

NoError == ErrorValue("", 0, "")

\* Errorf that does not format the export status into the text
ErrorfWithoutStatus(resp) ==
    IF resp.err THEN ErrorValue("error making request", 0, "")
    ELSE IF resp.body = "unreadable"
         THEN ErrorValue("error reading response", 0, "")
    ELSE IF resp.code # 200
         THEN ErrorValue("status check failed with status", resp.code, "")
    ELSE IF resp.body # "json"
         THEN ErrorValue("error unmarshaling response", 0, "")
    ELSE ErrorValue("export failed", 0, "")

\* The fmt.Errorf value returned by the iteration that ends in an error
Errorf(resp) ==
    IF resp.err THEN ErrorValue("error making request", 0, "")
    ELSE IF resp.body = "unreadable"
         THEN ErrorValue("error reading response", 0, "")
    ELSE IF resp.code # 200
         THEN ErrorValue("status check failed with status", resp.code, "")
    ELSE IF resp.body # "json"
         THEN ErrorValue("error unmarshaling response", 0, "")
    ELSE ErrorValue("export status is", 0, resp.status)

checkExportStatus ==
    /\ pc = "checkExportStatus"
    /\ requests' = Append(requests, Request("GET status", <<>>, <<>>, 0))
    /\ \E resp \in StatusResponses :
          /\ statusLog' = Append(statusLog, resp)
          /\ \/ /\ PollOutcome(resp) = "pending"
                /\ Len(statusLog) < MaxPolls
                /\ sleeps' = Append(sleeps, Sleep(PollDelay, requests'))
                /\ UNCHANGED <<pc, exitCode, pollErr, errText>>
             \/ /\ PollOutcome(resp) = "ready"
                /\ pollErr' = "nil"
                /\ pc' = "downloadExport"
                /\ UNCHANGED <<sleeps, exitCode, errText>>
             \/ /\ PollOutcome(resp) = "error"
                /\ pollErr' = "error"
                /\ errText' = Errorf(resp)
                /\ pc' = "exit"
                /\ exitCode' = 1
                /\ UNCHANGED sleeps
    /\ UNCHANGED <<issues, summaryReport, lap, variant, args, token,
                   listLog, createLog, config, results, idx, result,
                   chunkLog, warnings, files, stdout>>

----------------------------------------------------------------------------
(* downloadExport, and main up to the start of the chunk loop *)

\* A summary line on stdout: its text, the figure it gives, and the number
\* of the chunk file it is about (0 when it is about none)
Printed(line, n, file) == [line |-> line, n |-> n, file |-> file]

ZeroStats == [Total |-> 0, Open |-> 0, Ignored |-> 0, Resolved |-> 0]

ZeroReport == [s \in Severities |-> ZeroStats]

RECURSIVE Urls(_)
Urls(n) == IF n = 0 THEN <<>> ELSE Append(Urls(n - 1), n)

\* Responses to the result-listing GET; a JSON body lists n chunk URLs
ListResponses ==
    {[err |-> TRUE, code |-> 0, body |-> "none", n |-> 0]}
    \cup [err : {FALSE}, code : {200, 500}, body : {"unreadable", "badjson"},
          n : {0}]
    \cup [err : {FALSE}, code : {200, 500}, body : {"json"}, n : 0..MaxChunks]

\* DownloadExportFails without the check of the HTTP status
DownloadExportFailsNoStatusCheck(resp) ==
    \/ resp.err
    \/ resp.body # "json"

\* downloadExport returns a non-nil error
DownloadExportFails(resp) ==
    \/ resp.err
    \/ resp.code # 200
    \/ resp.body # "json"

downloadExport ==
    /\ pc = "downloadExport"
    /\ requests' = Append(requests, Request("GET export", <<>>, <<>>, 0))
    /\ \E resp \in ListResponses :
        /\ listLog' = Append(listLog, resp)
        /\ \/ /\ DownloadExportFails(resp)
              /\ pc' = "exit"
              /\ exitCode' = 1
              /\ UNCHANGED <<results, idx, result, stdout>>
           \/ /\ ~DownloadExportFails(resp)
              /\ results' = Urls(resp.n)
              /\ idx' = 0
              /\ result' = ZeroReport
              /\ stdout' = Append(stdout, Printed("Export contains", resp.n, 0))
              /\ pc' = "chunks"
              /\ UNCHANGED exitCode
    /\ UNCHANGED <<issues, summaryReport, lap, errText, variant, args,
                   token,
                   createLog, config, statusLog, pollErr, sleeps, chunkLog,
                   warnings, files>>

----------------------------------------------------------------------------
(* processCSV.  A CSV body is the sequence of its lines as encoding/csv
   lexes them: [ok |-> TRUE, fields |-> <<...>>] for a line whose quoting
   parses, [ok |-> FALSE, ...] for one whose quoting does not. *)

Line(fields) == [ok |-> TRUE, fields |-> fields]

BadLine == [ok |-> FALSE, fields |-> <<>>]

Min(a, b) == IF a < b THEN a ELSE b

\* record := make(CSVRecord); for i, value := range row
\*     { if i < len(headers) { record[headers[i]] = value } }
MakeRecord(headers, row) ==
    LET n == Min(Len(headers), Len(row))
        last(name) == CHOOSE j \in 1..n :
                          /\ headers[j] = name
                          /\ \A k \in 1..n : headers[k] = name => k <= j
    IN  [name \in {headers[j] : j \in 1..n} |-> row[last(name)]]

\* RowReadFails of a reader that skips what it cannot read
RowReadNeverFails(headers, line) == FALSE

\* reader.Read() on a data line fails: bad quoting, or a field count other
\* than the header's (csv.Reader.FieldsPerRecord is left 0, so the first
\* record fixes the count for the rest of the file)
RowReadFails(headers, line) ==
    \/ ~line.ok
    \/ Len(line.fields) # Len(headers)

ParseFailure == [err |-> TRUE, records |-> <<>>]

\* ReadRows that returns the rows read before the one that fails
RECURSIVE ReadRowsKeepPrefix(_, _, _, _)
ReadRowsKeepPrefix(data, headers, k, records) ==
    IF k > Len(data) THEN [err |-> FALSE, records |-> records]
    ELSE IF RowReadFails(headers, data[k])
         THEN [err |-> FALSE, records |-> records]
    ELSE ReadRowsKeepPrefix(data, headers, k + 1,
                            Append(records, MakeRecord(headers, data[k].fields)))

RECURSIVE ReadRows(_, _, _, _)
ReadRows(data, headers, k, records) ==
    IF k > Len(data) THEN [err |-> FALSE, records |-> records]
    ELSE IF RowReadFails(headers, data[k]) THEN ParseFailure
    ELSE ReadRows(data, headers, k + 1,
                  Append(records, MakeRecord(headers, data[k].fields)))

processCSV(data) ==
    IF Len(data) = 0 THEN ParseFailure
    ELSE IF ~data[1].ok THEN ParseFailure
    ELSE ReadRows(data, data[1].fields, 2, <<>>)

----------------------------------------------------------------------------
(* The aggregation of main's inner loop *)

\* record[key] on a Go map: the empty string when the key is absent
Get(record, key) == IF key \in DOMAIN record THEN record[key] ELSE ""

\* SeverityProperty matching without regard to case
SeverityPropertyFoldCase(severity) ==
    CASE severity \in {"Critical", "critical"} -> "Critical"
      [] severity \in {"High", "high"} -> "High"
      [] severity \in {"Medium", "medium"} -> "Medium"
      [] severity \in {"Low", "low"} -> "Low"
      [] OTHER -> "nil"

\* The switch on severity: the counter block selected, or "nil"
SeverityProperty(severity) ==
    CASE severity = "Critical" -> "Critical"
      [] severity = "High" -> "High"
      [] severity = "Medium" -> "Medium"
      [] severity = "Low" -> "Low"
      [] OTHER -> "nil"

\* StatusProperty matching without regard to case
StatusPropertyFoldCase(status) ==
    CASE status \in {"Open", "open"} -> "Open"
      [] status \in {"Ignored", "ignored"} -> "Ignored"
      [] status \in {"Resolved", "resolved"} -> "Resolved"
      [] OTHER -> "nil"

\* StatusProperty counting Fixed as Resolved
StatusPropertyFixedResolved(status) ==
    CASE status = "Open" -> "Open"
      [] status = "Ignored" -> "Ignored"
      [] status \in {"Resolved", "Fixed"} -> "Resolved"
      [] OTHER -> "nil"

\* The switch on status: the sub-counter incremented, or "nil"
StatusProperty(status) ==
    CASE status = "Open" -> "Open"
      [] status = "Ignored" -> "Ignored"
      [] status = "Resolved" -> "Resolved"
      [] OTHER -> "nil"

\* AddRecord that counts the status of the first record of a severity only
AddRecordFirstOfSeverity(report, record) ==
    LET sp == SeverityProperty(Get(record, "ISSUE_SEVERITY"))
        st == StatusProperty(Get(record, "ISSUE_STATUS"))
    IN  IF sp = "nil" THEN report
        ELSE IF st = "nil" \/ report[sp].Total > 0
             THEN [report EXCEPT ![sp].Total = @ + 1]
             ELSE [report EXCEPT ![sp].Total = @ + 1, ![sp][st] = @ + 1]

\* AddRecord that adds to the total only with a counted status
AddRecordTotalOnCounted(report, record) ==
    LET sp == SeverityProperty(Get(record, "ISSUE_SEVERITY"))
        st == StatusProperty(Get(record, "ISSUE_STATUS"))
    IN  IF sp = "nil" \/ st = "nil" THEN report
        ELSE [report EXCEPT ![sp].Total = @ + 1, ![sp][st] = @ + 1]

\* AddRecord whose Critical case falls through into the High case
AddRecordCriticalAlsoHigh(report, record) ==
    LET sp == SeverityProperty(Get(record, "ISSUE_SEVERITY"))
        st == StatusProperty(Get(record, "ISSUE_STATUS"))
        one == IF sp = "nil" THEN report
               ELSE IF st = "nil"
                    THEN [report EXCEPT ![sp].Total = @ + 1]
                    ELSE [report EXCEPT ![sp].Total = @ + 1, ![sp][st] = @ + 1]
    IN  IF sp = "Critical" THEN [one EXCEPT !["High"].Total = @ + 1] ELSE one

AddRecord(report, record) ==
    LET sp == SeverityProperty(Get(record, "ISSUE_SEVERITY"))
        st == StatusProperty(Get(record, "ISSUE_STATUS"))
    IN  IF sp = "nil" THEN report
        ELSE IF st = "nil"
             THEN [report EXCEPT ![sp].Total = @ + 1]
             ELSE [report EXCEPT ![sp].Total = @ + 1, ![sp][st] = @ + 1]

\* Aggregate that zeroes the accumulator at the start of every file
RECURSIVE AggregateRestart(_, _, _)
AggregateRestart(report, records, k) ==
    IF k > Len(records) THEN report
    ELSE AggregateRestart(AddRecord(IF k = 1 THEN ZeroReport ELSE report,
                                    records[k]),
                          records, k + 1)

\* for _, record := range records { ... } on the accumulator report
RECURSIVE Aggregate(_, _, _)
Aggregate(report, records, k) ==
    IF k > Len(records) THEN report
    ELSE Aggregate(AddRecord(report, records[k]), records, k + 1)

----------------------------------------------------------------------------
(* One iteration of main's loop over the result chunks: downloadCSVFile,
   processCSV, aggregation *)

Header == <<"ISSUE_SEVERITY", "ISSUE_STATUS">>

\* The chunk bodies served: no line at all; a header alone; every pair of a
\* recognized severity and a counted status, with three records of other
\* statuses; other severities; a file without the severity column; a line
\* with bad quoting; a line shorter and a line longer than the header
CsvBodies ==
    { <<>>,
      <<Line(Header)>>,
      <<Line(Header),
        Line(<<"Critical", "Open">>), Line(<<"High", "Ignored">>),
        Line(<<"Medium", "Resolved">>), Line(<<"Low", "Open">>),
        Line(<<"Critical", "Ignored">>), Line(<<"High", "Resolved">>),
        Line(<<"Medium", "Open">>), Line(<<"Low", "Ignored">>),
        Line(<<"Critical", "Resolved">>), Line(<<"High", "Open">>),
        Line(<<"Medium", "Ignored">>), Line(<<"Low", "Resolved">>),
        Line(<<"Critical", "Fixed">>), Line(<<"High", "open">>),
        Line(<<"Low", "">>)>>,
      <<Line(Header), Line(<<"high", "Open">>), Line(<<"", "Ignored">>),
        Line(<<"Urgent", "Resolved">>)>>,
      <<Line(<<"SCORE", "ISSUE_STATUS">>), Line(<<"7", "Open">>)>>,
      <<Line(Header), Line(<<"Medium", "Resolved">>), BadLine,
        Line(<<"Low", "Open">>)>>,
      <<Line(Header), Line(<<"High", "Open">>), Line(<<"Low">>)>>,
      <<Line(Header), Line(<<"High", "Open">>), Line(<<"Low", "Open", "x">>)>> }

\* The one body served when the write of the chunk file fails
UnsavedBody == <<Line(Header), Line(<<"High", "Open">>), Line(<<"Low", "Resolved">>)>>

\* Responses to the GET of a chunk URL, with the outcome of the file-system
\* calls of downloadCSVFile: a transport failure (of the request or of the
\* read of the body), a status other than 200, a directory that cannot be
\* created, or a body
ChunkResponses ==
    [kind : {"transportErr", "non200", "mkdirErr"},
     body : {<<>>}, writeOk : {FALSE}]
    \cup [kind : {"ok"}, body : CsvBodies, writeOk : {TRUE}]
    \cup [kind : {"ok"}, body : {UnsavedBody}, writeOk : {FALSE}]

\* DownloadFails without the check of the HTTP status
DownloadFailsNoStatusCheck(resp) == resp.kind \notin {"ok", "non200"}

DownloadFails(resp) == resp.kind # "ok"

Warning(kind, n) == [kind |-> kind, n |-> n]

ChunkFile(n) == <<"csv_file", n>>

ReportFile == <<"report", 0>>

ChunkEntry(resp, downloaded, parsed, records) ==
    [resp |-> resp, downloaded |-> downloaded, parsed |-> parsed,
     records |-> records]

\* ChunkUrl of a loop that walks the list from its end
ChunkUrlFromEnd(list, i) == list[Len(list) - i]

\* exportResult.URL in iteration i (from 0) of
\* for i, exportResult := range exportData.Data.Attributes.Results
ChunkUrl(list, i) == list[i + 1]

processChunk ==
    /\ pc = "chunks"
    /\ idx < Len(results)
    /\ idx' = idx + 1
    /\ requests' = Append(requests,
                          Request("GET csv", <<>>, <<>>, ChunkUrl(results, idx)))
    /\ \E resp \in ChunkResponses :
          \/ /\ DownloadFails(resp)
             /\ warnings' = Append(warnings, Warning("download", idx + 1))
             /\ chunkLog' = Append(chunkLog, ChunkEntry(resp, FALSE, FALSE, <<>>))
             /\ UNCHANGED <<files, result, stdout>>
          \/ /\ ~DownloadFails(resp)
             /\ files' = IF resp.writeOk THEN files \cup {ChunkFile(idx + 1)}
                         ELSE files
             /\ LET parse == processCSV(resp.body)
                IN  \/ /\ parse.err
                       /\ warnings' = Append(warnings, Warning("process", idx + 1))
                       /\ chunkLog' = Append(chunkLog,
                                         ChunkEntry(resp, TRUE, FALSE, <<>>))
                       /\ UNCHANGED <<result, stdout>>
                    \/ /\ ~parse.err
                       /\ result' = Aggregate(result, parse.records, 1)
                       /\ stdout' = Append(stdout,
                                      Printed("Processed", Len(parse.records),
                                              idx + 1))
                       /\ chunkLog' = Append(chunkLog,
                                         ChunkEntry(resp, TRUE, TRUE, parse.records))
                       /\ UNCHANGED warnings
    /\ UNCHANGED <<issues, summaryReport, lap, errText, variant, args,
                   token,
                   listLog, createLog, pc, exitCode, config, statusLog,
                   pollErr, sleeps, results>>

----------------------------------------------------------------------------
(* saveReport and the end of main *)

\* len(allRecords): main declares allRecords and never appends to it
AllRecordsLen == 0

\* saveReport that says nothing when the report cannot be written
saveReportSilent ==
    /\ pc = "chunks"
    /\ idx = Len(results)
    /\ \E writeOk \in BOOLEAN :
          \/ /\ writeOk
             /\ files' = files \cup {ReportFile}
             /\ stdout' = stdout \o <<Printed("Report saved to", 0, 0),
                                      Printed("Total records processed",
                                              AllRecordsLen, 0)>>
          \/ /\ ~writeOk
             /\ stdout' = Append(stdout, Printed("Total records processed",
                                                 AllRecordsLen, 0))
             /\ UNCHANGED files
    /\ pc' = "exit"
    /\ exitCode' = 0
    /\ UNCHANGED <<issues, summaryReport, lap, errText, variant, args,
                   token, listLog, createLog, config, requests, statusLog,
                   pollErr, sleeps, results, idx, result, chunkLog, warnings>>

saveReport ==
    /\ pc = "chunks"
    /\ idx = Len(results)
    /\ \E writeOk \in BOOLEAN :
          \/ /\ writeOk
             /\ files' = files \cup {ReportFile}
             /\ stdout' = stdout \o <<Printed("Report saved to", 0, 0),
                                      Printed("Total records processed",
                                              AllRecordsLen, 0)>>
             /\ UNCHANGED warnings
          \/ /\ ~writeOk
             /\ warnings' = Append(warnings, Warning("report", 0))
             /\ stdout' = Append(stdout, Printed("Total records processed",
                                                 AllRecordsLen, 0))
             /\ UNCHANGED files
    /\ pc' = "exit"
    /\ exitCode' = 0
    /\ UNCHANGED <<issues, summaryReport, lap, errText, variant, args,
                   token,
                   listLog, createLog, config, requests, statusLog, pollErr,
                   sleeps, results, idx, result, chunkLog>>

----------------------------------------------------------------------------

Init ==
    /\ variant \in {"dated", "fixed"}
    /\ args \in Arguments(variant)
    /\ token \in Tokens
    /\ pc = "getConfig"
    /\ exitCode = -1
    /\ config = ZeroConfig
    /\ createLog = <<>>
    /\ requests = <<>>
    /\ statusLog = <<>>
    /\ pollErr = "running"
    /\ listLog = <<>>
    /\ sleeps = <<>>
    /\ results = <<>>
    /\ idx = 0
    /\ result = ZeroReport
    /\ chunkLog = <<>>
    /\ warnings = <<>>
    /\ files = {}
    /\ stdout = <<>>
    /\ errText = NoError
    /\ lap = FALSE
    /\ issues = <<>>
    /\ summaryReport = <<>>

Next ==
    \/ getConfig
    \/ createExport
    \/ checkExportStatus
    \/ downloadExport
    \/ processChunk
    \/ saveReport

Spec == Init /\ [][Next]_vars

----------------------------------------------------------------------------
(* The run with a poll loop that is not cut at MaxPolls queries: the logs
   keep the first MaxPolls PENDING responses, and every further PENDING
   response only flips lap.  main is sequential and every call returns once
   its request is answered, so some step is always taken while one is
   possible. *)

\* An iteration of checkExportStatus beyond the logged ones, answered PENDING
checkExportStatusAgain ==
    /\ pc = "checkExportStatus"
    /\ Len(statusLog) = MaxPolls
    /\ \E resp \in StatusResponses : PollOutcome(resp) = "pending"
    /\ lap' = ~lap
    /\ UNCHANGED <<issues, summaryReport, variant, args, token, pc, exitCode,
                   config, createLog, requests, statusLog, pollErr, listLog,
                   sleeps, results, idx, result, chunkLog, warnings, files,
                   stdout, errText>>

\* One command line that getConfig accepts
LiveInit ==
    /\ Init
    /\ variant = "dated"
    /\ args = [orgID |-> "org-1", dateFrom |-> DateA, dateTo |-> DateB]
    /\ token = "tok"

LiveNext ==
    \/ getConfig
    \/ createExport
    \/ checkExportStatus
    \/ checkExportStatusAgain
    \/ downloadExport
    \/ processChunk
    \/ saveReport

LiveSpec == LiveInit /\ [][LiveNext]_vars /\ WF_vars(LiveNext)

----------------------------------------------------------------------------
(* The aggregator of the group script (export-vulns-group), whose code is
   not part of the sources: modelled from its specification.  A
   SummaryReport is the sequence of its rows in first-seen order, one row
   per AggregationKey (issue status, org display name), each with its
   SeverityCounts. *)

MaxIssues == 2

GroupSeverities == Severities \cup {"high"}
GroupStatuses == {"Open", "Fixed"}
OrgNames == {"default-org", "org-b"}

IssueRecords ==
    [ISSUE_SEVERITY : GroupSeverities, ISSUE_STATUS : GroupStatuses,
     ORG_DISPLAY_NAME : OrgNames]

\* AggregationKey that leaves the organization out
AggregationKeyStatusOnly(record) == <<record.ISSUE_STATUS, "default-org">>

AggregationKey(record) == <<record.ISSUE_STATUS, record.ORG_DISPLAY_NAME>>

ZeroSeverityCounts == [s \in Severities |-> 0]

\* The counting rule: a severity outside the four literals is not tallied
CountSeverity(counts, severity) ==
    IF severity \in Severities THEN [counts EXCEPT ![severity] = @ + 1]
    ELSE counts

\* The position of the row of a key in the report, 0 when it has none
RowOf(report, key) ==
    IF \E i \in DOMAIN report : report[i].key = key
    THEN CHOOSE i \in DOMAIN report : report[i].key = key
    ELSE 0

Aggregator(report, record) ==
    LET key == AggregationKey(record)
        i == RowOf(report, key)
    IN  IF i = 0
        THEN Append(report,
                    [key |-> key,
                     counts |-> CountSeverity(ZeroSeverityCounts,
                                              record.ISSUE_SEVERITY)])
        ELSE [report EXCEPT ![i].counts =
                                CountSeverity(@, record.ISSUE_SEVERITY)]

\* A row of summary-$ISSUE_STATUS.csv:
\* ORG_DISPLAY_NAME, CRITICAL, HIGH, MEDIUM, LOW
SummaryRow(entry) ==
    <<entry.key[2], entry.counts["Critical"], entry.counts["High"],
      entry.counts["Medium"], entry.counts["Low"]>>

\* The rows of summary-$ISSUE_STATUS.csv for one status
SummaryTable(report, status) ==
    LET OfStatus(entry) == entry.key[1] = status
        rows == SelectSeq(report, OfStatus)
    IN  [i \in DOMAIN rows |-> SummaryRow(rows[i])]

\* The aggregator consumes one more record
ingestIssue ==
    /\ Len(issues) < MaxIssues
    /\ \E record \in IssueRecords :
          /\ issues' = Append(issues, record)
          /\ summaryReport' = Aggregator(summaryReport, record)
    /\ UNCHANGED orgVars

GroupInit ==
    /\ issues = <<>>
    /\ summaryReport = <<>>
    /\ variant = "dated"
    /\ args = [orgID |-> "", dateFrom |-> <<>>, dateTo |-> <<>>]
    /\ token = ""
    /\ pc = "getConfig"
    /\ exitCode = -1
    /\ config = ZeroConfig
    /\ createLog = <<>>
    /\ requests = <<>>
    /\ statusLog = <<>>
    /\ pollErr = "running"
    /\ listLog = <<>>
    /\ sleeps = <<>>
    /\ results = <<>>
    /\ idx = 0
    /\ result = ZeroReport
    /\ chunkLog = <<>>
    /\ warnings = <<>>
    /\ files = {}
    /\ stdout = <<>>
    /\ errText = NoError
    /\ lap = FALSE

GroupNext == ingestIssue

GroupSpec == GroupInit /\ [][GroupNext]_vars

----------------------------------------------------------------------------
(* Vocabulary of the properties *)

Last(seq) == seq[Len(seq)]

Range(seq) == {seq[k] : k \in DOMAIN seq}

\* Positions in requests of the requests of one kind
RequestsOf(kind) == {k \in DOMAIN requests : requests[k].kind = kind}

\* A status response that is HTTP 200 with a JSON body
Answered(resp) == ~resp.err /\ resp.code = 200 /\ resp.body = "json"

Reports(resp, status) == Answered(resp) /\ resp.status = status

\* Positions in statusLog of the responses that report PENDING
PendingAnswers == {k \in DOMAIN statusLog : Reports(statusLog[k], "PENDING")}

\* The poll delays, i.e. the sleeps of one second
PollDelays == {k \in DOMAIN sleeps : sleeps[k].secs = 1}

----------------------------------------------------------------------------
(* C1: checkExportStatus returns success exactly when the latest status
   response is HTTP 200 with status STARTED, FINISHED or absent; it never
   returns success on a latest status of PENDING; the result listing is
   requested only after such a success. *)
C1_PollSuccessIffReady ==
    /\ pollErr # "running" =>
          (pollErr = "nil" <=>
              /\ Answered(Last(statusLog))
              /\ Last(statusLog).status \in {"STARTED", "FINISHED", ""})
    /\ pollErr = "nil" => ~Reports(Last(statusLog), "PENDING")
    /\ RequestsOf("GET export") # {} =>
          /\ pollErr = "nil"
          /\ \A g \in RequestsOf("GET export"), q \in RequestsOf("GET status") :
                q < g

\* The poller has returned success on an absent status after a PENDING one
C1_Witness ==
    /\ pollErr = "nil"
    /\ Len(statusLog) = 2
    /\ Reports(statusLog[1], "PENDING")
    /\ Reports(statusLog[2], "")
    /\ RequestsOf("GET export") # {}

----------------------------------------------------------------------------
(* C2: once a status response reports ERROR the run has aborted with a
   non-zero exit, and no result listing, no chunk download, no chunk file
   and no report file exists, then or later. *)
ErrorReported == \E k \in DOMAIN statusLog : Reports(statusLog[k], "ERROR")

C2_ErrorAborts ==
    ErrorReported =>
        /\ pc = "exit"
        /\ exitCode = 1
        /\ RequestsOf("GET export") = {}
        /\ RequestsOf("GET csv") = {}
        /\ files = {}

\* ERROR was reported after a PENDING response
C2_Witness ==
    /\ Len(statusLog) = 2
    /\ Reports(statusLog[1], "PENDING")
    /\ Reports(statusLog[2], "ERROR")
    /\ pc = "exit"

----------------------------------------------------------------------------
(* C10: n PENDING responses followed by one other response make n + 1
   status queries and n poll delays of one second, the k-th delay right
   after the k-th query (which was answered PENDING) and before the next;
   PENDING, PENDING, FINISHED gives two poll delays before the download. *)
C10_PollDelays ==
    /\ Cardinality(RequestsOf("GET status")) = Len(statusLog)
    /\ Cardinality(PollDelays) = Cardinality(PendingAnswers)
    /\ pollErr = "running" => PendingAnswers = DOMAIN statusLog
    /\ pollErr # "running" =>
          /\ PendingAnswers = 1..(Len(statusLog) - 1)
          /\ Cardinality(RequestsOf("GET status")) = Cardinality(PendingAnswers) + 1
    /\ \A k \in PendingAnswers :
          \E d \in PollDelays, q \in RequestsOf("GET status") :
             /\ Cardinality({e \in PollDelays : e <= d}) = k
             /\ Cardinality({r \in RequestsOf("GET status") : r <= q}) = k
             /\ sleeps[d].after = q
    /\ (/\ Len(statusLog) = 3
        /\ Reports(statusLog[1], "PENDING")
        /\ Reports(statusLog[2], "PENDING")
        /\ Reports(statusLog[3], "FINISHED")) =>
          /\ Cardinality(PollDelays) = 2
          /\ \A g \in RequestsOf("GET export") \cup RequestsOf("GET csv") :
                \A d \in PollDelays : sleeps[d].after < g

\* PENDING, PENDING, FINISHED has been polled and the listing requested
C10_Witness ==
    /\ Len(statusLog) = 3
    /\ Reports(statusLog[1], "PENDING")
    /\ Reports(statusLog[2], "PENDING")
    /\ Reports(statusLog[3], "FINISHED")
    /\ RequestsOf("GET export") # {}

----------------------------------------------------------------------------
(* Vocabulary of the aggregation properties *)

CountedStatuses == {"Open", "Ignored", "Resolved"}

\* <<c, r>>: record r of handled chunk c, for the chunks that were parsed
PositionsOf(chunks) ==
    UNION {{<<c, r>> : r \in DOMAIN chunkLog[c].records} :
              c \in {c \in chunks : chunkLog[c].parsed}}

RecordAt(p) == chunkLog[p[1]].records[p[2]]

HasField(p, key, value) ==
    key \in DOMAIN RecordAt(p) /\ RecordAt(p)[key] = value

HasSeverity(p, S) == HasField(p, "ISSUE_SEVERITY", S)

HasStatus(p, T) == HasField(p, "ISSUE_STATUS", T)

RecognizedRecord(record) ==
    /\ "ISSUE_SEVERITY" \in DOMAIN record
    /\ record["ISSUE_SEVERITY"] \in {"Critical", "High", "Medium", "Low"}

\* Number of records of the given chunks with severity S, and status T
\* unless T is "Total"
Counted(chunks, S, T) ==
    Cardinality({p \in PositionsOf(chunks) :
                    HasSeverity(p, S) /\ (T = "Total" \/ HasStatus(p, T))})

\* A chunk whose download failed: no 200 response, or unusable
FailedDownload(c) == chunkLog[c].resp.kind # "ok"

AllChunksRequested ==
    /\ Len(chunkLog) = Len(results)
    /\ \A j \in DOMAIN results :
          \E q \in RequestsOf("GET csv") : requests[q].n = results[j]

----------------------------------------------------------------------------
(* C3: when chunk k fails to download, the report counters are those of the
   records of the other chunks, a download warning for k is logged, the run
   is not aborted, and at its end every chunk has been requested and the
   exit code is 0. *)
C3_FailedChunkSkipped ==
    \A k \in DOMAIN chunkLog :
        FailedDownload(k) =>
            /\ [kind |-> "download", n |-> k] \in Range(warnings)
            /\ ChunkFile(k) \notin files
            /\ exitCode # 1
            /\ \A S \in {"Critical", "High", "Medium", "Low"} :
                  \A T \in {"Total", "Open", "Ignored", "Resolved"} :
                      result[S][T] = Counted(DOMAIN chunkLog \ {k}, S, T)
            /\ pc = "exit" => exitCode = 0 /\ AllChunksRequested

\* The run ended after chunk 1 answered with a non-200 status and chunk 2
\* was downloaded, parsed and counted
C3_Witness ==
    /\ pc = "exit"
    /\ Len(chunkLog) = 2
    /\ chunkLog[1].resp.kind = "non200"
    /\ chunkLog[2].parsed
    /\ result["High"].Total > 0

----------------------------------------------------------------------------
(* C4: each severity's total is the number of parsed records whose
   ISSUE_SEVERITY is exactly that literal; handling a chunk whose records
   all have another severity (empty, missing, lower-cased, unexpected)
   changes no counter. *)
C4_TotalsMatch ==
    \A S \in {"Critical", "High", "Medium", "Low"} :
        result[S].Total = Counted(DOMAIN chunkLog, S, "Total")

C4_UnrecognizedChangesNothing ==
    (/\ Len(chunkLog') = Len(chunkLog) + 1
     /\ \A r \in DOMAIN Last(chunkLog').records :
           ~RecognizedRecord(Last(chunkLog').records[r])) =>
        result' = result

C4_SeverityTotals == []C4_TotalsMatch /\ [][C4_UnrecognizedChangesNothing]_vars

\* A chunk whose records have the severities high, empty and Urgent has
\* been handled next to a chunk with a counted High record
C4_Witness ==
    /\ Len(chunkLog) = 2
    /\ \E p \in PositionsOf({1}) : HasSeverity(p, "high")
    /\ \E p \in PositionsOf({1}) : HasSeverity(p, "")
    /\ \E p \in PositionsOf({2}) : HasSeverity(p, "High")
    /\ result["High"].Total = 4

----------------------------------------------------------------------------
(* C5: each sub-counter S.T, T in Open, Ignored, Resolved, is the number of
   parsed records with severity S and status exactly T; the records of
   severity S with another status are counted in S.Total only. *)
C5_StatusSubCounters ==
    \A S \in {"Critical", "High", "Medium", "Low"} :
        /\ \A T \in CountedStatuses :
              result[S][T] = Counted(DOMAIN chunkLog, S, T)
        /\ result[S].Total - (result[S].Open + result[S].Ignored + result[S].Resolved)
              = Cardinality({p \in PositionsOf(DOMAIN chunkLog) :
                               /\ HasSeverity(p, S)
                               /\ ~HasStatus(p, "Open")
                               /\ ~HasStatus(p, "Ignored")
                               /\ ~HasStatus(p, "Resolved")})

\* Critical records with the statuses Fixed and Open have been counted
C5_Witness ==
    /\ \E p \in PositionsOf(DOMAIN chunkLog) :
          HasSeverity(p, "Critical") /\ HasStatus(p, "Fixed")
    /\ result["Critical"].Open = 1
    /\ result["Critical"].Total = 4

----------------------------------------------------------------------------
(* C9: a chunk with a malformed row is a parse error of that chunk only: a
   processing warning is logged, its rows after the malformed one are not
   counted, the run is not aborted, the other chunks are counted, and at
   the end every chunk has been requested and the exit code is 0. *)
Malformed(c) ==
    /\ chunkLog[c].resp.kind = "ok"
    /\ \E l \in DOMAIN chunkLog[c].resp.body : ~chunkLog[c].resp.body[l].ok

\* Lines of the body of chunk c before its first malformed line whose field
\* under the ISSUE_SEVERITY header is S
RowsBeforeMalformed(c, S) ==
    LET body == chunkLog[c].resp.body
        bad == CHOOSE l \in DOMAIN body :
                  ~body[l].ok /\ \A m \in 1..(l - 1) : body[m].ok
    IN  {l \in 2..(bad - 1) :
            \E j \in DOMAIN body[1].fields \cap DOMAIN body[l].fields :
                body[1].fields[j] = "ISSUE_SEVERITY" /\ body[l].fields[j] = S}

RECURSIVE SumBeforeMalformed(_, _)
SumBeforeMalformed(chunks, S) ==
    IF chunks = {} THEN 0
    ELSE LET c == CHOOSE x \in chunks : TRUE
         IN  Cardinality(RowsBeforeMalformed(c, S))
                + SumBeforeMalformed(chunks \ {c}, S)

C9_MalformedRowSkipsChunk ==
    \A k \in DOMAIN chunkLog :
        Malformed(k) =>
            /\ ~chunkLog[k].parsed
            /\ [kind |-> "process", n |-> k] \in Range(warnings)
            /\ exitCode # 1
            /\ \A S \in {"Critical", "High", "Medium", "Low"} :
                  /\ result[S].Total >= Counted(DOMAIN chunkLog \ {k}, S, "Total")
                  /\ result[S].Total <=
                        Counted(DOMAIN chunkLog, S, "Total")
                          + SumBeforeMalformed({c \in DOMAIN chunkLog : Malformed(c)}, S)
            /\ pc = "exit" => exitCode = 0 /\ AllChunksRequested

\* The run ended after chunk 1 had a malformed row and chunk 2 was counted
C9_Witness ==
    /\ pc = "exit"
    /\ Len(chunkLog) = 2
    /\ Malformed(1)
    /\ chunkLog[2].parsed
    /\ result["Low"].Total > 0

----------------------------------------------------------------------------
(* C6: for valid calendar dates d1, d2 given as arguments, the introduced
   filter of the job-submission request is d1T00:00:00Z .. d2T23:59:59Z. *)
C6_FilterFromArguments ==
    (ParsesAsDate(args.dateFrom) /\ ParsesAsDate(args.dateTo)) =>
        \A q \in RequestsOf("POST export") :
            /\ requests[q].from = args.dateFrom \o <<"T00:00:00Z">>
            /\ requests[q].to = args.dateTo \o <<"T23:59:59Z">>

----------------------------------------------------------------------------
(* C7: when the from-date argument is later than the to-date argument, the
   run is rejected before any network request: none is ever issued, and
   getConfig ends the run with exit code 1. *)
C7_FromAfterToRejected ==
    (/\ ParsesAsDate(args.dateFrom)
     /\ ParsesAsDate(args.dateTo)
     /\ DateLater(args.dateFrom, args.dateTo)) =>
        /\ requests = <<>>
        /\ pc \in {"getConfig", "exit"}
        /\ pc = "exit" => exitCode = 1

----------------------------------------------------------------------------
(* C8: processCSV zips every data row with the header by position: a row
   shorter than the header gives a record without the trailing names, a
   longer row gives a record without the extra values, and neither makes
   the file fail: every row of a file whose quoting is sound is returned. *)
SoundQuoting(c) ==
    /\ chunkLog[c].resp.kind = "ok"
    /\ Len(chunkLog[c].resp.body) >= 1
    /\ \A l \in DOMAIN chunkLog[c].resp.body : chunkLog[c].resp.body[l].ok

C8_LenientZip ==
    \A c \in DOMAIN chunkLog :
        SoundQuoting(c) =>
            LET body == chunkLog[c].resp.body
                names == body[1].fields
            IN  /\ chunkLog[c].parsed
                /\ Len(chunkLog[c].records) = Len(body) - 1
                /\ \A r \in DOMAIN chunkLog[c].records :
                      LET row == body[r + 1].fields
                          zipped == DOMAIN names \cap DOMAIN row
                      IN  /\ DOMAIN chunkLog[c].records[r] = {names[j] : j \in zipped}
                          /\ \A j \in zipped : chunkLog[c].records[r][names[j]] = row[j]

----------------------------------------------------------------------------
(* C11: a status response with an HTTP status other than 200 ends the poll
   with an error whatever its body: it is the last response, no sleep and
   no query follows it, the run exits non-zero, and neither the result
   listing nor a chunk is requested. *)

\* Position in requests of the k-th status query
StatusQuery(k) ==
    CHOOSE q \in RequestsOf("GET status") :
        Cardinality({r \in RequestsOf("GET status") : r <= q}) = k

Non200(resp) == ~resp.err /\ resp.code # 200

C11_Non200PollFatal ==
    \A k \in DOMAIN statusLog :
        Non200(statusLog[k]) =>
            /\ k = Len(statusLog)
            /\ Cardinality(RequestsOf("GET status")) = k
            /\ \A d \in DOMAIN sleeps : sleeps[d].after < StatusQuery(k)
            /\ pollErr = "error"
            /\ pc = "exit"
            /\ exitCode = 1
            /\ RequestsOf("GET export") = {}
            /\ RequestsOf("GET csv") = {}

\* A 500 response whose JSON body reports PENDING ended the poll, after a
\* 200 response that reported PENDING
C11_Witness ==
    /\ Len(statusLog) = 2
    /\ Reports(statusLog[1], "PENDING")
    /\ Non200(statusLog[2])
    /\ statusLog[2].body = "json"
    /\ statusLog[2].status = "PENDING"
    /\ pc = "exit"

----------------------------------------------------------------------------
(* C12: job submission succeeds only on a response with status 202 whose
   body carries a non-empty job id; on any other response the run exits
   non-zero and issues no status query, no result-listing request and no
   chunk download; on such a response the run goes on to poll that job. *)
Accepted(resp) ==
    ~resp.err /\ resp.code = 202 /\ resp.body = "json" /\ resp.id # ""

C12_SubmissionAccepted ==
    createLog # <<>> =>
        /\ Len(createLog) = 1
        /\ Cardinality(RequestsOf("POST export")) = 1
        /\ ~Accepted(createLog[1]) =>
              /\ pc = "exit"
              /\ exitCode = 1
              /\ sleeps = <<>>
              /\ RequestsOf("GET status") = {}
              /\ RequestsOf("GET export") = {}
              /\ RequestsOf("GET csv") = {}
        /\ Accepted(createLog[1]) =>
              /\ config.ExportID = createLog[1].id
              /\ sleeps # <<>>
              /\ pc = "exit" => RequestsOf("GET status") # {}

\* A 202 response without an id ended the run
C12_Witness ==
    /\ createLog # <<>>
    /\ ~createLog[1].err
    /\ createLog[1].code = 202
    /\ createLog[1].body = "json"
    /\ createLog[1].id = ""
    /\ pc = "exit"

----------------------------------------------------------------------------
(* C13: the run exits non-zero exactly when a fatal condition occurred: a
   validation failure, a submission failure, a poll failure or a
   result-listing failure; otherwise it exits zero once every chunk has been
   handled, whatever chunks failed to download or to parse, all of them
   included. *)
ValidationFailure ==
    /\ pc # "getConfig"
    /\ \/ args.orgID = ""
       \/ token = ""
       \/ variant = "dated" /\ ~ParsesAsDate(args.dateFrom)
       \/ variant = "dated" /\ ~ParsesAsDate(args.dateTo)

SubmissionFailure == createLog # <<>> /\ ~Accepted(createLog[1])

PollFailure ==
    /\ statusLog # <<>>
    /\ \/ ~Answered(Last(statusLog))
       \/ Last(statusLog).status \notin {"", "STARTED", "FINISHED", "PENDING"}

ListingFailure ==
    /\ listLog # <<>>
    /\ \/ listLog[1].err
       \/ listLog[1].code # 200
       \/ listLog[1].body # "json"

Fatal == ValidationFailure \/ SubmissionFailure \/ PollFailure \/ ListingFailure

FailedChunks == {c \in DOMAIN chunkLog : ~chunkLog[c].parsed}

C13_ExitCode ==
    /\ exitCode \in {-1, 0, 1}
    /\ exitCode # -1 <=> pc = "exit"
    /\ exitCode = 1 <=> Fatal
    /\ exitCode = 0 =>
          /\ ~Fatal
          /\ listLog # <<>>
          /\ Len(chunkLog) = listLog[1].n

\* The run exited zero after both of its chunks failed, the first to
\* download and the second to parse
C13_Witness ==
    /\ pc = "exit"
    /\ exitCode = 0
    /\ Len(chunkLog) = 2
    /\ FailedChunks = {1, 2}
    /\ ~chunkLog[1].downloaded
    /\ chunkLog[2].downloaded

----------------------------------------------------------------------------
(* C14: when the scope id is missing, a from or to date is missing or is
   not a calendar date, or SNYK_TOKEN is missing, the run ends with a
   non-zero exit and no network request is ever issued. *)
InvalidInput ==
    \/ args.orgID = ""
    \/ args.dateFrom = <<>> \/ ~ParsesAsDate(args.dateFrom)
    \/ args.dateTo = <<>> \/ ~ParsesAsDate(args.dateTo)
    \/ token = ""

C14_ValidationBeforeNetwork ==
    InvalidInput =>
        /\ requests = <<>>
        /\ pc \in {"getConfig", "exit"}
        /\ pc = "exit" => exitCode = 1

----------------------------------------------------------------------------
(* C15: for every status counted by the report (Open, Ignored, Resolved),
   the sum over the four severities of the sub-counters of that status is
   at most the number of aggregated records with that status, and equal to
   it exactly when no record with that status has a severity outside the
   four literals.  A status that the report does not count has no counter
   attributed to it. *)

\* The statuses of the aggregated records
SeenStatuses ==
    {RecordAt(p)["ISSUE_STATUS"] :
        p \in {q \in PositionsOf(DOMAIN chunkLog) :
                  "ISSUE_STATUS" \in DOMAIN RecordAt(q)}}

\* The aggregated records with status T
WithStatus(T) == {p \in PositionsOf(DOMAIN chunkLog) : HasStatus(p, T)}

\* The sum over the severities of the counts the report attributes to T
AttributedTo(T) ==
    IF T \in CountedStatuses
    THEN result["Critical"][T] + result["High"][T]
            + result["Medium"][T] + result["Low"][T]
    ELSE 0

PartitionAt(T) ==
    /\ AttributedTo(T) <= Cardinality(WithStatus(T))
    /\ AttributedTo(T) = Cardinality(WithStatus(T)) <=>
          \A p \in WithStatus(T) : RecognizedRecord(RecordAt(p))

C15_PartitionCounted == \A T \in CountedStatuses : PartitionAt(T)

\* C15 as stated: the partition property for every status value met,
\* counted by the report or not
C15_PartitionEveryStatus ==
    \A T \in SeenStatuses \cup CountedStatuses : PartitionAt(T)

\* An Open record without a severity has been aggregated with four counted
\* Open records, and the four Ignored records all have a counted severity
C15_Witness ==
    /\ Cardinality(WithStatus("Open")) = 5
    /\ AttributedTo("Open") = 4
    /\ \E p \in WithStatus("Open") : ~RecognizedRecord(RecordAt(p))
    /\ Cardinality(WithStatus("Ignored")) = 4
    /\ AttributedTo("Ignored") = 4

----------------------------------------------------------------------------
(* C16: on a completed run the output printed after the chunk loop states
   the number of chunks requested and the number of chunks successfully
   processed, and both figures are the true ones. *)

\* Positions in stdout of the lines printed after the last chunk was handled
FinalLines ==
    {k \in DOMAIN stdout :
        \A j \in k..Len(stdout) :
            stdout[j].line \notin {"Export contains", "Processed"}}

ProcessedChunks == {c \in DOMAIN chunkLog : chunkLog[c].parsed}

C16_FinalOutputStatesChunks ==
    (pc = "exit" /\ exitCode = 0) =>
        /\ \E k \in FinalLines :
              /\ stdout[k].line = "Chunks requested"
              /\ stdout[k].n = Len(results)
        /\ \E k \in FinalLines :
              /\ stdout[k].line = "Chunks processed"
              /\ stdout[k].n = Cardinality(ProcessedChunks)

----------------------------------------------------------------------------
(* C17: the report counters are a function of the parsed records only: at
   every point of the run they are what one pass over those records from a
   zeroed accumulator gives, and when the same sequence of records is
   aggregated twice (two chunks with the same records) the second pass adds
   to every counter exactly what the first pass, from the zeroed
   accumulator, gave. *)

\* The records of the first k handled chunks, in order
RECURSIVE RecordsUpTo(_)
RecordsUpTo(k) ==
    IF k = 0 THEN <<>> ELSE RecordsUpTo(k - 1) \o chunkLog[k].records

FreshPass(records) == Aggregate(ZeroReport, records, 1)

C17_FreshPassesAgree ==
    /\ pc \in {"chunks", "exit"} => result = FreshPass(RecordsUpTo(Len(chunkLog)))
    /\ (/\ Len(chunkLog) = 2
        /\ chunkLog[1].parsed
        /\ chunkLog[2].parsed
        /\ chunkLog[1].records = chunkLog[2].records) =>
          \A S \in {"Critical", "High", "Medium", "Low"} :
              \A T \in {"Total", "Open", "Ignored", "Resolved"} :
                  result[S][T] = 2 * FreshPass(chunkLog[1].records)[S][T]

\* The same fifteen records have been aggregated twice
C17_Witness ==
    /\ Len(chunkLog) = 2
    /\ chunkLog[1].parsed
    /\ chunkLog[1].records = chunkLog[2].records
    /\ Len(chunkLog[1].records) = 15
    /\ result["Critical"].Total = 8

----------------------------------------------------------------------------
(* C18: the pipeline polls the job status again, one second later, as long
   as the status is PENDING, and it requests, downloads and saves results
   only after a status response reported FINISHED, STARTED or no status. *)
ResultsFetched ==
    RequestsOf("GET export") # {} \/ RequestsOf("GET csv") # {} \/ files # {}

----------------------------------------------------------------------------
(* C19: the aggregator groups records by (issue status, org display name):
   the report has one row per pair met, the row of an org under a status
   holds for each severity the number of records with that status, that
   org and that severity, and for the single record (High, Open,
   default-org) the Open summary is exactly the row default-org,0,1,0,0. *)
IssuesWith(status, org, severity) ==
    {k \in DOMAIN issues :
        /\ issues[k].ISSUE_STATUS = status
        /\ issues[k].ORG_DISPLAY_NAME = org
        /\ issues[k].ISSUE_SEVERITY = severity}

ExampleIssue ==
    [ISSUE_SEVERITY |-> "High", ISSUE_STATUS |-> "Open",
     ORG_DISPLAY_NAME |-> "default-org"]

C19_GroupedByStatusAndOrg ==
    /\ \A i, j \in DOMAIN summaryReport :
          summaryReport[i].key = summaryReport[j].key => i = j
    /\ \A k \in DOMAIN issues :
          \E i \in DOMAIN summaryReport :
              summaryReport[i].key =
                  <<issues[k].ISSUE_STATUS, issues[k].ORG_DISPLAY_NAME>>
    /\ \A i \in DOMAIN summaryReport :
          \A S \in {"Critical", "High", "Medium", "Low"} :
              summaryReport[i].counts[S] =
                  Cardinality(IssuesWith(summaryReport[i].key[1],
                                         summaryReport[i].key[2], S))
    /\ issues = <<ExampleIssue>> =>
          /\ SummaryTable(summaryReport, "Open") = <<<<"default-org", 0, 1, 0, 0>>>>
          /\ SummaryTable(summaryReport, "Fixed") = <<>>

\* Two records of one status and two organizations have been aggregated
C19_Witness ==
    /\ Len(issues) = 2
    /\ issues[1] = ExampleIssue
    /\ issues[2].ISSUE_STATUS = "Open"
    /\ issues[2].ORG_DISPLAY_NAME = "org-b"
    /\ Len(SummaryTable(summaryReport, "Open")) = 2

----------------------------------------------------------------------------
(* C20: the steps of a run occur in the order submit, poll, result listing,
   chunk downloads, report: the submission is answered before the first
   status query, every status query precedes the one listing request, the
   listing is answered before any chunk is requested, the chunks are
   requested in list order, each one handled (counted or failed) before
   the next is requested, and the report is written at most once, by the
   last step of the run, after the last chunk has been handled. *)
Rank(kind) ==
    CASE kind = "POST export" -> 1
      [] kind = "GET status" -> 2
      [] kind = "GET export" -> 3
      [] kind = "GET csv" -> 4

\* Position in requests of the k-th chunk download
CsvQuery(k) ==
    CHOOSE q \in RequestsOf("GET csv") :
        Cardinality({r \in RequestsOf("GET csv") : r <= q}) = k

ReportAttempted ==
    ReportFile \in files \/ [kind |-> "report", n |-> 0] \in Range(warnings)

C20_StepsInOrder ==
    /\ \A i, j \in DOMAIN requests :
          i < j => Rank(requests[i].kind) <= Rank(requests[j].kind)
    /\ Cardinality(RequestsOf("POST export")) <= 1
    /\ Cardinality(RequestsOf("GET export")) <= 1
    /\ RequestsOf("GET status") # {} =>
          createLog # <<>> /\ Accepted(createLog[1])
    /\ RequestsOf("GET export") # {} => pollErr = "nil"
    /\ RequestsOf("GET csv") # {} =>
          listLog # <<>> /\ Len(results) = listLog[1].n
    /\ Cardinality(RequestsOf("GET csv")) = Len(chunkLog)
    /\ Len(chunkLog) <= Len(results)
    /\ \A k \in DOMAIN chunkLog : requests[CsvQuery(k)].n = results[k]
    /\ ReportAttempted =>
          /\ pc = "exit"
          /\ Len(chunkLog) = Len(results)
    /\ (pc = "exit" /\ exitCode = 0) => ReportAttempted
    /\ Cardinality({k \in DOMAIN stdout : stdout[k].line = "Report saved to"})
          = IF ReportFile \in files THEN 1 ELSE 0

\* A step issues at most one request, and a chunk is requested by the step
\* that handles it
C20_OneAtATime ==
    /\ Len(requests') <= Len(requests) + 1
    /\ Len(chunkLog') = Len(chunkLog) + 1 <=>
          (Len(requests') = Len(requests) + 1 /\ Last(requests').kind = "GET csv")
    /\ ReportAttempted' => requests' = requests

C20_FixedOrder == []C20_StepsInOrder /\ [][C20_OneAtATime]_vars

\* A run has ended with the report written after two chunks
C20_Witness ==
    /\ pc = "exit"
    /\ ReportFile \in files
    /\ Len(chunkLog) = 2
    /\ Len(statusLog) = 2
    /\ Cardinality(RequestsOf("GET csv")) = 2

----------------------------------------------------------------------------
(* C21: no network call is retried: a run issues at most one job-submission
   request, at most one result-listing request and at most one download
   request per chunk URL, whether or not they fail; a status query other
   than the first is issued right after a query that was answered PENDING,
   and none is issued after a response that is not PENDING. *)
C21_NoRetry ==
    /\ Cardinality(RequestsOf("POST export")) <= 1
    /\ Cardinality(RequestsOf("GET export")) <= 1
    /\ \A p, q \in RequestsOf("GET csv") : requests[p].n = requests[q].n => p = q
    /\ Cardinality(RequestsOf("GET status")) = Len(statusLog)
    /\ \A k \in 2..Len(statusLog) :
          /\ Reports(statusLog[k - 1], "PENDING")
          /\ StatusQuery(k) = StatusQuery(k - 1) + 1
    /\ \A k \in DOMAIN statusLog :
          ~Reports(statusLog[k], "PENDING") =>
              /\ k = Len(statusLog)
              /\ pc # "checkExportStatus"

\* The poll ended on a transport failure after one PENDING response
C21_Witness ==
    /\ Len(statusLog) = 2
    /\ Reports(statusLog[1], "PENDING")
    /\ statusLog[2].err
    /\ pc = "exit"

----------------------------------------------------------------------------
(* C22: the poll loop has no retry bound: a run that has been answered
   nothing but PENDING is still polling, however many answers it got, and
   a run ends only before the poll or after an answer that is not PENDING;
   once an answer is not PENDING (another status, a non-200 status, a
   transport failure) the run eventually reaches exit. *)
NonPendingAnswer ==
    statusLog # <<>> /\ ~Reports(Last(statusLog), "PENDING")

C22_StillPolling ==
    /\ (statusLog # <<>> /\ ~NonPendingAnswer) =>
          pc = "checkExportStatus" /\ exitCode = -1
    /\ lap => pc = "checkExportStatus" \/ NonPendingAnswer

C22_PollTermination ==
    /\ []C22_StillPolling
    /\ NonPendingAnswer ~> (pc = "exit")

\* The run is still polling after more PENDING answers than are logged
C22_Witness ==
    /\ lap
    /\ pc = "checkExportStatus"
    /\ Len(statusLog) = MaxPolls
    /\ \A k \in DOMAIN statusLog : Reports(statusLog[k], "PENDING")

----------------------------------------------------------------------------
(* C23: handling a chunk that fails to download or to parse (no 200
   response, no header line, a line with bad quoting, a data line with
   another field count than the header) changes no report counter, so the
   well-formed rows before a malformed one are not counted either. *)
UnreadableBody(body) ==
    \/ body = <<>>
    \/ \E l \in DOMAIN body : ~body[l].ok
    \/ \E l \in DOMAIN body : Len(body[l].fields) # Len(body[1].fields)

FailedChunk(entry) ==
    entry.resp.kind # "ok" \/ UnreadableBody(entry.resp.body)

C23_FailedChunkStep ==
    (/\ Len(chunkLog') = Len(chunkLog) + 1
     /\ FailedChunk(Last(chunkLog'))) =>
        result' = result

C23_FailedChunkFrame == [][C23_FailedChunkStep]_vars

\* After a counted chunk, a chunk whose second data line has bad quoting
\* and whose first data line is a well-formed Medium record was handled,
\* and the Medium counters are those of the first chunk
C23_Witness ==
    /\ Len(chunkLog) = 2
    /\ chunkLog[1].parsed
    /\ result["Medium"].Total = 3
    /\ chunkLog[2].resp.kind = "ok"
    /\ Len(chunkLog[2].resp.body) > 2
    /\ chunkLog[2].resp.body[2] = Line(<<"Medium", "Resolved">>)
    /\ ~chunkLog[2].resp.body[3].ok

----------------------------------------------------------------------------
(* C24: the report counters do not depend on the order of the chunks nor on
   the order of the rows of a parsed chunk: running the chunk loop on the
   same responses with the chunks reversed or rotated, and the data rows
   of every parsed chunk reversed or rotated, gives the counters of the
   run. *)
Reverse(s) == [i \in 1..Len(s) |-> s[Len(s) + 1 - i]]

Rotate(s) == IF s = <<>> THEN s ELSE Append(Tail(s), Head(s))

Reorder(s, how) ==
    CASE how = "reverse" -> Reverse(s)
      [] how = "rotate" -> Rotate(s)
      [] OTHER -> s

\* The response with the data rows of its body reordered, when it parses
ReorderRows(resp, how) ==
    IF DownloadFails(resp) \/ processCSV(resp.body).err THEN resp
    ELSE [resp EXCEPT !.body = <<Head(@)>> \o Reorder(Tail(@), how)]

\* The chunk loop of main on the responses resps, from the accumulator report
RECURSIVE ChunkLoop(_, _, _)
ChunkLoop(report, resps, k) ==
    IF k > Len(resps) THEN report
    ELSE LET resp == resps[k]
             parse == processCSV(resp.body)
         IN  ChunkLoop(IF DownloadFails(resp) \/ parse.err THEN report
                       ELSE Aggregate(report, parse.records, 1),
                       resps, k + 1)

Orders == {"keep", "reverse", "rotate"}

ReorderedRun(chunkOrder, rowOrder) ==
    Reorder([c \in DOMAIN chunkLog |-> ReorderRows(chunkLog[c].resp, rowOrder)],
            chunkOrder)

C24_OrderIndependent ==
    pc = "exit" /\ chunkLog # <<>> =>
        \A chunkOrder, rowOrder \in Orders :
            ChunkLoop(ZeroReport, ReorderedRun(chunkOrder, rowOrder), 1) = result

\* The run ended after two parsed chunks with different records, the
\* first with records of different severities and statuses
C24_Witness ==
    /\ pc = "exit"
    /\ Len(chunkLog) = 2
    /\ chunkLog[1].parsed
    /\ chunkLog[2].parsed
    /\ Len(chunkLog[1].records) = 15
    /\ Len(chunkLog[2].records) = 2
    /\ result["High"].Open = 2

----------------------------------------------------------------------------
(* C25: for each severity S, Open + Ignored + Resolved of S is at most the
   total of S, and equals it exactly when every record counted so far under
   S had the status Open, Ignored or Resolved. *)
SubCounterSum(S) == result[S].Open + result[S].Ignored + result[S].Resolved

CountedUnder(S) == {p \in PositionsOf(DOMAIN chunkLog) : HasSeverity(p, S)}

C25_SubCountersWithinTotal ==
    \A S \in {"Critical", "High", "Medium", "Low"} :
        /\ SubCounterSum(S) <= result[S].Total
        /\ SubCounterSum(S) = result[S].Total <=>
              \A p \in CountedUnder(S) :
                  \E T \in CountedStatuses : HasStatus(p, T)

\* Medium has three records, all with counted statuses; Critical has four,
\* one of them with the status Fixed
C25_Witness ==
    /\ result["Medium"].Total = 3
    /\ SubCounterSum("Medium") = 3
    /\ result["Critical"].Total = 4
    /\ SubCounterSum("Critical") = 3
    /\ \E p \in CountedUnder("Critical") : HasStatus(p, "Fixed")

----------------------------------------------------------------------------
(* C26: every counter is zero until the first chunk is handled and never
   decreases afterwards; one record adds at most 1 to the total of at most
   one severity and at most 1 to at most one sub-counter of that severity,
   and changes no counter of another severity. *)
Counters == {"Total", "Open", "Ignored", "Resolved"}

\* before and after are the accumulator around the handling of one record
OneRecordStep(before, after) ==
    /\ \A S \in Severities : \A T \in Counters :
          after[S][T] - before[S][T] \in {0, 1}
    /\ \A S, R \in Severities :
          after[S] # before[S] /\ after[R] # before[R] => S = R
    /\ \A S \in Severities :
          /\ \A T, U \in CountedStatuses :
                after[S][T] > before[S][T] /\ after[S][U] > before[S][U] => T = U
          /\ \A T \in CountedStatuses :
                after[S][T] > before[S][T] => after[S].Total > before[S].Total

RECURSIVE RecordSteps(_, _, _)
RecordSteps(report, records, k) ==
    \/ k > Len(records)
    \/ /\ OneRecordStep(report, AddRecord(report, records[k]))
       /\ RecordSteps(AddRecord(report, records[k]), records, k + 1)

C26_ChunkStep ==
    /\ \A S \in Severities : \A T \in Counters : result'[S][T] >= result[S][T]
    /\ Len(chunkLog') = Len(chunkLog) + 1 =>
          RecordSteps(result, Last(chunkLog').records, 1)

C26_ZeroThenMonotone ==
    /\ [](chunkLog = <<>> => result = ZeroReport)
    /\ [][C26_ChunkStep]_vars

\* The fifteen records were counted in each of two chunks
C26_Witness ==
    /\ Len(chunkLog) = 2
    /\ Len(chunkLog[1].records) = 15
    /\ Len(chunkLog[2].records) = 15
    /\ result["Low"].Total = 8
    /\ result["Low"].Open = 2
    /\ result["Critical"].Total = 8

----------------------------------------------------------------------------
(* C27: a status response whose status is none of absent, PENDING, STARTED,
   FINISHED (ERROR, or a differently cased label such as finished) ends the
   poll at once: no delay and no query follows it, the error returned
   carries that status string, and the run aborts with exit code 1 before
   any listing or chunk request. *)
OtherStatus(resp) ==
    /\ ~resp.err
    /\ resp.code = 200
    /\ resp.body = "json"
    /\ resp.status \notin {"", "PENDING", "STARTED", "FINISHED"}

C27_UnknownStatusFatal ==
    \A k \in DOMAIN statusLog :
        OtherStatus(statusLog[k]) =>
            /\ k = Len(statusLog)
            /\ Cardinality(RequestsOf("GET status")) = k
            /\ \A d \in DOMAIN sleeps : sleeps[d].after < StatusQuery(k)
            /\ errText.status = statusLog[k].status
            /\ errText.text = "export status is"
            /\ pc = "exit"
            /\ exitCode = 1
            /\ RequestsOf("GET export") = {}
            /\ ReportFile \notin files

\* After a PENDING answer the service answered the status finished
C27_Witness ==
    /\ Len(statusLog) = 2
    /\ Reports(statusLog[1], "PENDING")
    /\ OtherStatus(statusLog[2])
    /\ statusLog[2].status = "finished"
    /\ errText.status = "finished"
    /\ exitCode = 1

----------------------------------------------------------------------------
(* C28: the delays of a run are one 5-second delay right after an accepted
   submission, before the first status query, and one 1-second delay right
   after each status query answered PENDING; there is no other delay: none
   after a failed submission, after another status answer, or in the
   listing, the chunk loop and the report. *)
AfterSubmission(d) ==
    /\ d = 1
    /\ sleeps[d].secs = 5
    /\ sleeps[d].after \in RequestsOf("POST export")
    /\ Accepted(createLog[1])

AfterPending(d) ==
    /\ sleeps[d].secs = 1
    /\ \E k \in PendingAnswers : sleeps[d].after = StatusQuery(k)

C28_DelaysOfTheRun ==
    /\ \A d \in DOMAIN sleeps : AfterSubmission(d) \/ AfterPending(d)
    /\ \A d, e \in DOMAIN sleeps : sleeps[d].after = sleeps[e].after => d = e
    /\ (createLog # <<>> /\ Accepted(createLog[1])) =>
          sleeps # <<>> /\ AfterSubmission(1)
    /\ \A q \in RequestsOf("GET status") : sleeps # <<>> /\ sleeps[1].after < q

(* C28 as stated: every delay is the 1-second delay after a PENDING
   response, and none lies between the submission and the first status
   query. *)
C28_OnlyPollDelays ==
    \A d \in DOMAIN sleeps :
        /\ sleeps[d].secs = 1
        /\ sleeps[d].after \notin RequestsOf("POST export")

\* The run ended after an accepted submission, a PENDING answer and a
\* FINISHED answer: a delay of 5 seconds and one of 1 second
C28_Witness ==
    /\ pc = "exit"
    /\ exitCode = 0
    /\ Len(statusLog) = 2
    /\ Reports(statusLog[1], "PENDING")
    /\ Reports(statusLog[2], "FINISHED")
    /\ Len(sleeps) = 2
    /\ sleeps[1].secs = 5
    /\ sleeps[2].secs = 1

----------------------------------------------------------------------------
(* C29: a run whose poll succeeded and whose result listing is answered
   with an empty result list is not a successful run: it writes no report
   and does not end with exit code 0. *)
EmptyListing(resp) ==
    ~resp.err /\ resp.code = 200 /\ resp.body = "json" /\ resp.n = 0

C29_EmptyListingNotSuccess ==
    (/\ pollErr = "nil"
     /\ listLog # <<>>
     /\ EmptyListing(Last(listLog))) =>
        /\ ReportFile \notin files
        /\ exitCode # 0

----------------------------------------------------------------------------
(* C30: a run that completes with exit code 0 has tried to save the report
   once, after the chunk loop: either the report file was written and
   `Report saved to` printed, or the report file was not written and a
   warning about the report was logged; a run that ends with exit code 1
   has neither the file nor the warning. *)
ReportSaved ==
    /\ ReportFile \in files
    /\ \E l \in DOMAIN stdout : stdout[l].line = "Report saved to"
    /\ Warning("report", 0) \notin Range(warnings)

ReportWriteWarned ==
    /\ ReportFile \notin files
    /\ \A l \in DOMAIN stdout : stdout[l].line # "Report saved to"
    /\ Cardinality({w \in DOMAIN warnings : warnings[w] = Warning("report", 0)}) = 1
    /\ Last(warnings) = Warning("report", 0)

C30_SavedOrWarned ==
    /\ (pc = "exit" /\ exitCode = 0) => ReportSaved \/ ReportWriteWarned
    /\ ~(pc = "exit" /\ exitCode = 0) =>
          /\ ReportFile \notin files
          /\ Warning("report", 0) \notin Range(warnings)

(* C30 as stated: whenever the run has completed with exit code 0, the
   report file has been written. *)
C30_ExitZeroReportWritten ==
    (pc = "exit" /\ exitCode = 0) => ReportFile \in files

\* The run ended with exit code 0 after counting a chunk, without the
\* report file, with the warning logged
C30_Witness ==
    /\ pc = "exit"
    /\ exitCode = 0
    /\ result["High"].Total > 0
    /\ ReportWriteWarned

----------------------------------------------------------------------------
(* C31: at the end of a completed run the figure of the line `Total records
   processed` is the number of records parsed from the chunks that were
   downloaded and parsed, which is also the sum of the figures of the
   `Processed` lines printed per chunk. *)
RECURSIVE SumOfProcessedLines(_)
SumOfProcessedLines(k) ==
    IF k = 0 THEN 0
    ELSE SumOfProcessedLines(k - 1)
            + (IF stdout[k].line = "Processed" THEN stdout[k].n ELSE 0)

C31_TotalRecordsProcessed ==
    (pc = "exit" /\ exitCode = 0) =>
        /\ SumOfProcessedLines(Len(stdout)) = Len(RecordsUpTo(Len(chunkLog)))
        /\ \E k \in DOMAIN stdout :
              /\ stdout[k].line = "Total records processed"
              /\ stdout[k].n = Len(RecordsUpTo(Len(chunkLog)))

====
